---- MODULE Spec2Model ----
(***************************************************************************)
(* alias-mapper (src/src/mod.ts): key alias cache, value alias cache, the  *)
(* key-value applier with its cast policy, the composite applier with its  *)
(* deferred compute functions, and the two cached handles.                 *)
(*                                                                         *)
(* JavaScript values are records [t, s]: t is the typeof tag and s the     *)
(* string form String(value).  Objects (source, result, the caches) are    *)
(* functions from key strings to values; an object whose iteration order   *)
(* matters (a source object, an alias map) is the sequence of its entries  *)
(* in Object.entries order.                                                *)
(***************************************************************************)
EXTENDS Integers, Sequences, FiniteSets, TLC

VARIABLES mode, map, ctorMap, keyCache, valueCache, pc, source, idx, result,
          computeFunctions, calls, mutations, kept

vars == <<mode, map, ctorMap, keyCache, valueCache, pc, source, idx, result,
          computeFunctions, calls, mutations, kept>>

(***************************************************************************)
(* Bounds of the model.                                                    *)
(***************************************************************************)
MaxRules == 2
MaxKeyRules == 3
MaxAliases == 2
MaxSource == 2
MaxMutations == 1

(***************************************************************************)
(* JavaScript values.                                                      *)
(***************************************************************************)
Str(s) == [t |-> "string", s |-> s]
Num(s) == [t |-> "number", s |-> s]
Bool(b) == [t |-> "boolean", s |-> IF b THEN "true" ELSE "false"]
Undefined == [t |-> "undefined", s |-> "undefined"]
TypeError == [t |-> "TypeError", s |-> "TypeError"]

EmptyObject == <<>>

\* String(value)
String(value) == value.s

\* String.prototype.toLowerCase on the strings of the model
toLowerCase(s) ==
  CASE s = "TRUE" -> "true"
    [] s = "True" -> "true"
    [] s = "ON" -> "on"
    [] OTHER -> s

\* the numeric value of a string, as the string form of the number
StringToNumber(s) ==
  CASE s = "" -> "0"
    [] s = "0" -> "0"
    [] s = "1" -> "1"
    [] s = "01" -> "1"
    [] s = "5" -> "5"
    [] s = "10" -> "10"
    [] OTHER -> "NaN"

\* Number(value)
Number(value) ==
  CASE value.t = "string" -> Num(StringToNumber(value.s))
    [] value.t = "number" -> value
    [] value.t = "boolean" -> Num(IF value.s = "true" THEN "1" ELSE "0")
    [] OTHER -> Num("NaN")

\* Map.prototype.set / obj[k] = v
MapSet(m, k, v) == [x \in (DOMAIN m) \cup {k} |-> IF x = k THEN v ELSE m[x]]

\* Object.assign(target, src)
ObjectAssign(target, src) ==
  [x \in (DOMAIN target) \cup (DOMAIN src) |->
     IF x \in DOMAIN src THEN src[x] ELSE target[x]]

\* mutant of PassThrough: an unrecognised key is dropped
PassThroughDropped(res, sourceKey, sourceValue) == res

\* result[sourceKey] = sourceValue for a key no rule recognises
PassThrough(res, sourceKey, sourceValue) == MapSet(res, sourceKey, sourceValue)

\* aliasMap[key]: the rule entry of a canonical key, or Undefined
HasRule(aliasMap, key) == \E i \in 1..Len(aliasMap) : aliasMap[i].key = key
RuleOf(aliasMap, key) ==
  aliasMap[CHOOSE i \in 1..Len(aliasMap) : aliasMap[i].key = key]

(***************************************************************************)
(* cacheKeyAliases                                                         *)
(***************************************************************************)
\* mutant of SetAliases: an alias that is already cached keeps its first key
RECURSIVE SetAliasesKeepFirst(_, _, _, _)
SetAliasesKeepFirst(cached, aliases, j, key) ==
  IF j > Len(aliases) THEN cached
  ELSE SetAliasesKeepFirst(
         IF aliases[j] \in DOMAIN cached THEN cached
         ELSE MapSet(cached, aliases[j], key),
         aliases, j + 1, key)

RECURSIVE SetAliases(_, _, _, _)
SetAliases(cached, aliases, j, key) ==
  IF j > Len(aliases) THEN cached
  ELSE SetAliases(MapSet(cached, aliases[j], key), aliases, j + 1, key)

RECURSIVE cacheKeyAliasesFrom(_, _, _)
cacheKeyAliasesFrom(aliasMap, i, cached) ==
  IF i > Len(aliasMap) THEN cached
  ELSE LET key == aliasMap[i].key
           aliases == aliasMap[i].aliases
           withKey == MapSet(cached, key, key)
       IN  cacheKeyAliasesFrom(aliasMap, i + 1,
                               SetAliases(withKey, aliases, 1, key))

\* mutant of cacheKeyAliases: the rules are visited last to first
cacheKeyAliasesReversed(aliasMap) ==
  cacheKeyAliasesFrom([i \in 1..Len(aliasMap) |-> aliasMap[Len(aliasMap) + 1 - i]],
                      1, EmptyObject)

cacheKeyAliases(aliasMap) == cacheKeyAliasesFrom(aliasMap, 1, EmptyObject)

(***************************************************************************)
(* cacheValueAliases                                                       *)
(***************************************************************************)
RECURSIVE valueMapFrom(_, _, _)
valueMapFrom(values, j, valueMap) ==
  IF j > Len(values) THEN valueMap
  ELSE valueMapFrom(values, j + 1,
                    SetAliases(valueMap, values[j].aliases, 1, values[j].value))

RECURSIVE cacheValueAliasesFrom(_, _, _)
cacheValueAliasesFrom(aliasMap, i, valueAliasesMap) ==
  IF i > Len(aliasMap) THEN valueAliasesMap
  ELSE cacheValueAliasesFrom(aliasMap, i + 1,
         MapSet(valueAliasesMap, aliasMap[i].key,
                valueMapFrom(aliasMap[i].values, 1, EmptyObject)))

cacheValueAliases(aliasMap) == cacheValueAliasesFrom(aliasMap, 1, EmptyObject)

(***************************************************************************)
(* castValue: value.toLowerCase() is a TypeError on a number or a boolean  *)
(***************************************************************************)
castValue(value, castTo) ==
  CASE castTo = "boolean" ->
         IF value.t = "string"
         THEN Bool(toLowerCase(value.s) = "true" \/ String(value) = "1")
         ELSE TypeError
    [] castTo = "number" -> Number(value)
    [] OTHER -> value

(***************************************************************************)
(* applyKeyValueAliases                                                    *)
(***************************************************************************)
\* aliasMap[destKey]?._castTo
CastToOf(aliasMap, destKey) ==
  IF HasRule(aliasMap, destKey) THEN RuleOf(aliasMap, destKey).castTo
  ELSE "undefined"

\* valueAliasCache.get(destKey)?.get(value)
ValueAliasOf(valueAliasCache, destKey, value) ==
  IF destKey \in DOMAIN valueAliasCache
     /\ value.t = "string"
     /\ value.s \in DOMAIN valueAliasCache[destKey]
  THEN Str(valueAliasCache[destKey][value.s])
  ELSE Undefined

\* the value assigned to result[destKey] for one recognised pair
KeyValueDestValue(value, castTo, aliased) ==
  LET destValue ==
        IF castTo # "undefined"
        THEN IF aliased # Undefined THEN castValue(aliased, castTo)
             ELSE castValue(value, castTo)
        ELSE aliased
  IN  IF destValue # Undefined THEN destValue ELSE value

\* mutant of applyKeyValueAliasesFrom: the value of a recognised pair is
\* stored under the source key, not under the canonical key
RECURSIVE applyKeyValueAliasesKeepingKeys(_, _, _, _, _, _)
applyKeyValueAliasesKeepingKeys(src, i, res, aliasMap, keyAliasCache, valueAliasCache) ==
  IF i > Len(src) THEN [status |-> "returned", value |-> res]
  ELSE LET key == src[i][1]
           value == src[i][2]
           destKey == keyAliasCache[key]
       IN  IF key \notin DOMAIN keyAliasCache
           THEN applyKeyValueAliasesKeepingKeys(src, i + 1,
                  PassThrough(res, key, value),
                  aliasMap, keyAliasCache, valueAliasCache)
           ELSE LET castTo == CastToOf(aliasMap, destKey)
                    aliased == ValueAliasOf(valueAliasCache, destKey, value)
                    final == KeyValueDestValue(value, castTo, aliased)
                IN  IF final = TypeError
                    THEN [status |-> "thrown", value |-> EmptyObject]
                    ELSE applyKeyValueAliasesKeepingKeys(src, i + 1,
                           MapSet(res, key, final),
                           aliasMap, keyAliasCache, valueAliasCache)


RECURSIVE applyKeyValueAliasesFrom(_, _, _, _, _, _)
applyKeyValueAliasesFrom(src, i, res, aliasMap, keyAliasCache, valueAliasCache) ==
  IF i > Len(src) THEN [status |-> "returned", value |-> res]
  ELSE LET key == src[i][1]
           value == src[i][2]
           destKey == keyAliasCache[key]
       IN  IF key \notin DOMAIN keyAliasCache
           THEN applyKeyValueAliasesFrom(src, i + 1, PassThrough(res, key, value),
                                         aliasMap, keyAliasCache, valueAliasCache)
           ELSE LET castTo == CastToOf(aliasMap, destKey)
                    aliased == ValueAliasOf(valueAliasCache, destKey, value)
                    final == KeyValueDestValue(value, castTo, aliased)
                IN  IF final = TypeError
                    THEN [status |-> "thrown", value |-> EmptyObject]
                    ELSE applyKeyValueAliasesFrom(src, i + 1,
                           MapSet(res, destKey, final),
                           aliasMap, keyAliasCache, valueAliasCache)

applyKeyValueAliases(src, aliasMap, keyAliasCache, valueAliasCache) ==
  applyKeyValueAliasesFrom(src, 1, EmptyObject, aliasMap, keyAliasCache,
                           valueAliasCache)

(***************************************************************************)
(* Compute functions a composite rule may carry (CompositeAliasMapFunction)*)
(*   fill   : (value, context) => ({ c: value })                           *)
(*   mirror : (value, context) => 'c' in context ? { y: context.c } : {}   *)
(* "undefined" is a rule without _compute and "notFunction" a _compute     *)
(* that is not callable.                                                   *)
(***************************************************************************)
ComputeFunctions == {"fill", "mirror"}

CallCompute(computeFunction, value, context) ==
  CASE computeFunction = "fill" -> ("c" :> value)
    [] computeFunction = "mirror" ->
         IF "c" \in DOMAIN context THEN ("y" :> context["c"]) ELSE EmptyObject
    [] OTHER -> EmptyObject

\* _compute != null && typeof _compute === 'function'
IsCallable(compute) == compute \in ComputeFunctions

(***************************************************************************)
(* The inputs: key strings, alias maps and source objects.                 *)
(***************************************************************************)
Keys == {"a", "b", "c"}
CanonicalKeys == {"a", "b"}

SeqsUpTo(S, n) == UNION {[1..k -> S] : k \in 0..n}

\* sequences without repeated elements: the entries of an object
Distinct(seq) == \A i, j \in 1..Len(seq) : i # j => seq[i] # seq[j]

\* the value alias lists of the tests: { true: ['on'], 5: ['five'] }
TestValues ==
  << [value |-> "true", aliases |-> <<"on">>],
     [value |-> "5", aliases |-> <<"five">>] >>

\* _aliases of a rule: absent or empty, or one alternate key
OneAlias == SeqsUpTo(Keys, 1)

\* key-value rule entries without their key: _aliases, _castTo, value lists
KeyValueRules ==
  [aliases : OneAlias, castTo : {"undefined", "boolean", "number"},
   values : {TestValues}]

\* key-value rule entries that only rename keys
RenameRules ==
  [aliases : SeqsUpTo(Keys, MaxAliases), castTo : {"undefined"},
   values : {<<>>}]

\* the static fields of a composite rule; "c" is also a key string
StaticMappings ==
  { EmptyObject,
    ("c" :> Str("center")),
    ("c" :> Str("left") @@ "x" :> Str("middle")) }

\* composite rule entries without their key: _aliases, _compute, static fields
CompositeRules ==
  [aliases : {<<>>, <<"c">>},
   compute : {"undefined", "notFunction"} \cup ComputeFunctions,
   static : StaticMappings]

KeyValueRule(key, rule) ==
  [key |-> key, aliases |-> rule.aliases, castTo |-> rule.castTo,
   values |-> rule.values]

CompositeRule(key, rule) ==
  [key |-> key, aliases |-> rule.aliases, compute |-> rule.compute,
   static |-> rule.static]

\* the canonical keys of an alias map, in iteration order: distinct keys
KeyOrders(keys, n) == {ks \in SeqsUpTo(keys, n) : Distinct(ks)}

\* the alias map with canonical keys ks (in iteration order) and entries rs
KeyValueMap(ks, rs) == [i \in 1..Len(ks) |-> KeyValueRule(ks[i], rs[i])]
CompositeMap(ks, rs) == [i \in 1..Len(ks) |-> CompositeRule(ks[i], rs[i])]

KeyValueScalars ==
  {Str("on"), Str("TRUE"), Str("1"), Str("five"), Str("whoa"), Num("1"),
   Bool(TRUE)}
CompositeScalars == {Bool(TRUE), Bool(FALSE), Str("on"), Num("1")}

\* source objects: one pair with any scalar, or several pairs of distinct
\* keys with the scalars that tell the pairs apart
SourcesOf(scalars, several) ==
  {<<>>} \cup {<<p>> : p \in Keys \X scalars}
  \cup UNION { { [i \in 1..Len(ks) |-> <<ks[i], vs[i]>>] :
                   vs \in [1..Len(ks) -> several] } :
                 ks \in {o \in KeyOrders(Keys, MaxSource) : Len(o) >= 2} }

KeyValueSources == SourcesOf(KeyValueScalars, {Str("on"), Str("whoa")})
CompositeSources == SourcesOf(CompositeScalars, {Bool(TRUE), Str("on")})

NothingKept ==
  [held |-> FALSE, source |-> <<>>, map |-> <<>>, keyCache |-> EmptyObject,
   valueCache |-> EmptyObject, status |-> "none", result |-> EmptyObject]

(***************************************************************************)
(* keyValueAliases(map) and compositeAliases(map): the state after         *)
(* construction of a handle.                                               *)
(***************************************************************************)
keyValueAliases(m) ==
  /\ mode = "keyValue"
  /\ map = m
  /\ ctorMap = m
  /\ keyCache = cacheKeyAliases(m)
  /\ valueCache = cacheValueAliases(m)

compositeAliases(m) ==
  /\ mode = "composite"
  /\ map = m
  /\ ctorMap = m
  /\ keyCache = cacheKeyAliases(m)
  /\ valueCache = EmptyObject

NoBuild ==
  /\ pc = "ready"
  /\ source = <<>>
  /\ idx = 0
  /\ result = EmptyObject
  /\ computeFunctions = <<>>
  /\ calls = <<>>
  /\ mutations = 0
  /\ kept = NothingKept

Init ==
  /\ \E ks \in KeyOrders(CanonicalKeys, MaxRules) :
       \/ \E rs \in [1..Len(ks) -> KeyValueRules] :
            keyValueAliases(KeyValueMap(ks, rs))
       \/ \E rs \in [1..Len(ks) -> CompositeRules] :
            compositeAliases(CompositeMap(ks, rs))
  /\ NoBuild

Idle == pc \in {"ready", "returned", "thrown"}

\* mutant of KeyValueBuild: build derives the caches again from the map
KeyValueBuildRefreshing(obj) ==
  /\ mode = "keyValue"
  /\ Idle
  /\ keyCache' = cacheKeyAliases(map)
  /\ valueCache' = cacheValueAliases(map)
  /\ LET outcome == applyKeyValueAliases(obj, map, keyCache', valueCache')
     IN  /\ pc' = outcome.status
         /\ result' = outcome.value
  /\ source' = obj
  /\ UNCHANGED <<mode, map, ctorMap, idx, computeFunctions, calls, mutations,
                 kept>>

\* mutant of KeyValueBuild: the applier is called without the handle's caches
\* and falls back on its default parameters
KeyValueBuildUncached(obj) ==
  /\ mode = "keyValue"
  /\ Idle
  /\ LET outcome == applyKeyValueAliases(obj, map, cacheKeyAliases(map),
                                         cacheValueAliases(map))
     IN  /\ pc' = outcome.status
         /\ result' = outcome.value
  /\ source' = obj
  /\ UNCHANGED <<mode, map, ctorMap, keyCache, valueCache, idx,
                 computeFunctions, calls, mutations, kept>>

(***************************************************************************)
(* build of a key-value handle:                                            *)
(*   applyKeyValueAliases(obj, result.map, result.keyCache,                *)
(*                        result.valueCache)                               *)
(***************************************************************************)
KeyValueBuild(obj) ==
  /\ mode = "keyValue"
  /\ Idle
  /\ LET outcome == applyKeyValueAliases(obj, map, keyCache, valueCache)
     IN  /\ pc' = outcome.status
         /\ result' = outcome.value
  /\ source' = obj
  /\ UNCHANGED <<mode, map, ctorMap, keyCache, valueCache, idx,
                 computeFunctions, calls, mutations, kept>>

(***************************************************************************)
(* build of a composite handle:                                            *)
(*   applyCompositeAliases(obj, result.map, result.keyCache)               *)
(* one action per iteration of its two loops.                              *)
(***************************************************************************)
CompositeBuild(obj) ==
  /\ mode = "composite"
  /\ Idle
  /\ pc' = "loop"
  /\ source' = obj
  /\ idx' = 1
  /\ result' = EmptyObject
  /\ computeFunctions' = <<>>
  /\ calls' = <<>>
  /\ UNCHANGED <<mode, map, ctorMap, keyCache, valueCache, mutations, kept>>

\* mutant of Enqueue: a compute function already in the queue is not enqueued
\* again, so a rule is computed once per build
EnqueueOnce(queue, rule, sourceValue) ==
  IF /\ IsCallable(rule.compute)
     /\ \A n \in 1..Len(queue) : queue[n][1] # rule.compute
  THEN Append(queue, <<rule.compute, sourceValue>>)
  ELSE queue


\* if (_compute != null && typeof _compute === 'function')
\*   computeFunctions.push([_compute, sourceValue])
Enqueue(queue, rule, sourceValue) ==
  IF IsCallable(rule.compute)
  THEN Append(queue, <<rule.compute, sourceValue>>)
  ELSE queue

\* mutant of StaticExpansion: the gate is truthiness, not boolean true
StaticExpansionTruthy(res, rule, sourceValue) ==
  IF sourceValue \notin {Bool(FALSE), Str(""), Num("0"), Num("NaN"), Undefined}
  THEN ObjectAssign(res, rule.static)
  ELSE res

\* if (!(typeof sourceValue === 'boolean' && sourceValue)) continue
\* for (const [mappedKey, mappedValue] of Object.entries(destMappings)) ...
StaticExpansion(res, rule, sourceValue) ==
  IF sourceValue = Bool(TRUE)
  THEN ObjectAssign(res, rule.static)
  ELSE res

\* mutant of SourcePair: a compute function is invoked as soon as its key is
\* met, before the static fields of that pair and of the later pairs
SourcePairEager ==
  /\ pc = "loop"
  /\ idx <= Len(source)
  /\ LET sourceKey == source[idx][1]
         sourceValue == source[idx][2]
         destKey == keyCache[sourceKey]
     IN  IF sourceKey \notin DOMAIN keyCache
         THEN /\ result' = PassThrough(result, sourceKey, sourceValue)
              /\ idx' = idx + 1
              /\ UNCHANGED <<pc, computeFunctions, calls>>
         ELSE IF ~HasRule(map, destKey)
         THEN /\ pc' = "thrown"
              /\ UNCHANGED <<result, idx, computeFunctions, calls>>
         ELSE LET rule == RuleOf(map, destKey)
                  computedValues ==
                    IF IsCallable(rule.compute)
                    THEN CallCompute(rule.compute, sourceValue, result)
                    ELSE EmptyObject
              IN  /\ calls' =
                       IF IsCallable(rule.compute)
                       THEN Append(calls, [fn |-> rule.compute,
                                           value |-> sourceValue,
                                           context |-> result,
                                           returned |-> computedValues])
                       ELSE calls
                  /\ result' = StaticExpansion(ObjectAssign(result, computedValues),
                                               rule, sourceValue)
                  /\ idx' = idx + 1
                  /\ UNCHANGED <<pc, computeFunctions>>
  /\ UNCHANGED <<mode, map, ctorMap, keyCache, valueCache, source, mutations,
                 kept>>

\* one iteration of  for (const [sourceKey, sourceValue] of Object.entries(source))
SourcePair ==
  /\ pc = "loop"
  /\ idx <= Len(source)
  /\ LET sourceKey == source[idx][1]
         sourceValue == source[idx][2]
         destKey == keyCache[sourceKey]
     IN  IF sourceKey \notin DOMAIN keyCache
         THEN /\ result' = PassThrough(result, sourceKey, sourceValue)
              /\ idx' = idx + 1
              /\ UNCHANGED <<pc, computeFunctions>>
         ELSE IF ~HasRule(map, destKey)
         THEN \* destructuring aliasMap[destKey] === undefined
              /\ pc' = "thrown"
              /\ UNCHANGED <<result, idx, computeFunctions>>
         ELSE LET rule == RuleOf(map, destKey)
              IN  /\ computeFunctions' = Enqueue(computeFunctions, rule, sourceValue)
                  /\ result' = StaticExpansion(result, rule, sourceValue)
                  /\ idx' = idx + 1
                  /\ pc' = pc
  /\ UNCHANGED <<mode, map, ctorMap, keyCache, valueCache, source, calls,
                 mutations, kept>>

\* the source loop is over: if (computeFunctions.length > 0) ... else return
SourceDone ==
  /\ pc = "loop"
  /\ idx > Len(source)
  /\ pc' = IF Len(computeFunctions) > 0 THEN "compute" ELSE "returned"
  /\ idx' = 1
  /\ UNCHANGED <<mode, map, ctorMap, keyCache, valueCache, source, result,
                 computeFunctions, calls, mutations, kept>>

\* mutant of Compute: every compute function is given the result as it stood
\* before the first one ran
ComputeOnSnapshot ==
  /\ pc = "compute"
  /\ idx <= Len(computeFunctions)
  /\ LET computeFunction == computeFunctions[idx][1]
         sourceValue == computeFunctions[idx][2]
         snapshot == IF calls = <<>> THEN result ELSE calls[1].context
         computedValues == CallCompute(computeFunction, sourceValue, snapshot)
     IN  /\ calls' = Append(calls, [fn |-> computeFunction, value |-> sourceValue,
                                    context |-> snapshot, returned |-> computedValues])
         /\ result' = ObjectAssign(result, computedValues)
  /\ idx' = idx + 1
  /\ pc' = IF idx = Len(computeFunctions) THEN "returned" ELSE "compute"
  /\ UNCHANGED <<mode, map, ctorMap, keyCache, valueCache, source,
                 computeFunctions, mutations, kept>>

\* one iteration of  for (const [computeFunction, sourceValue] of computeFunctions)
Compute ==
  /\ pc = "compute"
  /\ idx <= Len(computeFunctions)
  /\ LET computeFunction == computeFunctions[idx][1]
         sourceValue == computeFunctions[idx][2]
         computedValues == CallCompute(computeFunction, sourceValue, result)
     IN  /\ calls' = Append(calls, [fn |-> computeFunction, value |-> sourceValue,
                                    context |-> result, returned |-> computedValues])
         /\ result' = ObjectAssign(result, computedValues)
  /\ idx' = idx + 1
  /\ pc' = IF idx = Len(computeFunctions) THEN "returned" ELSE "compute"
  /\ UNCHANGED <<mode, map, ctorMap, keyCache, valueCache, source,
                 computeFunctions, mutations, kept>>

Next ==
  \/ \E obj \in KeyValueSources : KeyValueBuild(obj)
  \/ \E obj \in CompositeSources : CompositeBuild(obj)
  \/ SourcePair
  \/ SourceDone
  \/ Compute

Spec == Init /\ [][Next]_vars

(***************************************************************************)
(* The key alias cache on its own: handles over maps that only rename      *)
(* keys, with up to MaxKeyRules rules of up to MaxAliases aliases, and     *)
(* builds of one-pair source objects.                                      *)
(***************************************************************************)
InitKeys ==
  /\ \E ks \in KeyOrders(Keys, MaxKeyRules) :
       \E rs \in [1..Len(ks) -> RenameRules] :
         keyValueAliases(KeyValueMap(ks, rs))
  /\ NoBuild

RenameSources == {<<>>} \cup {<<p>> : p \in Keys \X {Str("on")}}

NextKeys == \E obj \in RenameSources : KeyValueBuild(obj)

SpecKeys == InitKeys /\ [][NextKeys]_vars

(***************************************************************************)
(* The caller of a handle: it mutates handle.map in place after            *)
(* construction (MapWithCachedKeys.map is a live reference) and keeps the  *)
(* object a build returned.                                                *)
(***************************************************************************)
\* (a mutation leaves no build outcome current: pc is "ready" again)
\* handle.map[key]._castTo = castTo
SetCastTo(i, castTo) ==
  /\ mode = "keyValue"
  /\ i \in 1..Len(map)
  /\ map[i].castTo # castTo
  /\ map' = [map EXCEPT ![i].castTo = castTo]

\* handle.map[key]._aliases.push(alias)
PushAlias(i, alias) ==
  /\ i \in 1..Len(map)
  /\ map' = [map EXCEPT ![i].aliases = Append(@, alias)]

\* delete handle.map[key]
DeleteRule(i) ==
  /\ i \in 1..Len(map)
  /\ map' = [j \in 1..(Len(map) - 1) |-> IF j < i THEN map[j] ELSE map[j + 1]]

MutateMap ==
  /\ Idle
  /\ mutations < MaxMutations
  /\ \/ \E i \in 1..MaxRules, castTo \in {"undefined", "boolean", "number"} :
          SetCastTo(i, castTo)
     \/ \E i \in 1..MaxRules, alias \in Keys : PushAlias(i, alias)
     \/ \E i \in 1..MaxRules : DeleteRule(i)
  /\ mutations' = mutations + 1
  /\ pc' = "ready"
  /\ UNCHANGED <<mode, ctorMap, keyCache, valueCache, source, idx, result,
                 computeFunctions, calls, kept>>

\* const previous = handle.build(obj): the caller holds on to a build's outcome
Keep ==
  /\ mode = "keyValue"
  /\ pc \in {"returned", "thrown"}
  /\ ~kept.held
  /\ kept' = [held |-> TRUE, source |-> source, map |-> map,
              keyCache |-> keyCache, valueCache |-> valueCache, status |-> pc,
              result |-> result]
  /\ UNCHANGED <<mode, map, ctorMap, keyCache, valueCache, pc, source, idx,
                 result, computeFunctions, calls, mutations>>

InitMut ==
  /\ \E ks \in KeyOrders({"a"}, 1) :
       \/ \E rs \in [1..Len(ks) -> KeyValueRules] :
            keyValueAliases(KeyValueMap(ks, rs))
       \/ \E rs \in [1..Len(ks) -> CompositeRules] :
            compositeAliases(CompositeMap(ks, rs))
  /\ NoBuild

OnePairSources(scalars) == {<<>>} \cup {<<p>> : p \in Keys \X scalars}

\* the scalars of the builds around a mutation: a value alias, a raw string
\* that casts, a number
FewScalars == {Str("on"), Str("TRUE"), Num("1")}

NextMut ==
  \/ \E obj \in OnePairSources(FewScalars) : KeyValueBuild(obj)
  \/ \E obj \in OnePairSources(CompositeScalars) : CompositeBuild(obj)
  \/ SourcePair
  \/ SourceDone
  \/ Compute
  \/ MutateMap
  \/ Keep

SpecMut == InitMut /\ [][NextMut]_vars

(***************************************************************************)
(* Properties.                                                             *)
(***************************************************************************)
Resolved(i) == source[i][1] \in DOMAIN keyCache

\* the fields written by the static expansion of the source's true flags
StaticEmitted ==
  UNION { DOMAIN RuleOf(map, keyCache[source[i][1]]).static :
            i \in {j \in 1..Len(source) :
                     /\ Resolved(j)
                     /\ HasRule(map, keyCache[source[j][1]])
                     /\ source[j][2] = Bool(TRUE)} }

\* the fields returned by the compute functions invoked so far
ComputeEmitted == UNION { DOMAIN calls[j].returned : j \in 1..Len(calls) }

Copied(i) ==
  /\ source[i][1] \in DOMAIN result
  /\ result[source[i][1]] = source[i][2]

RECURSIVE StaticResultFrom(_, _)
StaticResultFrom(i, res) ==
  IF i > Len(source) THEN res
  ELSE LET k == source[i][1]
           v == source[i][2]
       IN  IF k \notin DOMAIN keyCache
           THEN StaticResultFrom(i + 1, MapSet(res, k, v))
           ELSE IF v = Bool(TRUE) /\ HasRule(map, keyCache[k])
           THEN StaticResultFrom(i + 1,
                  ObjectAssign(res, RuleOf(map, keyCache[k]).static))
           ELSE StaticResultFrom(i + 1, res)

StaticResult == StaticResultFrom(1, EmptyObject)

\* C3 as stated: every compute function of a build receives the same context,
\* the result after static expansion and pass-through, before any compute.
C3_SameContext ==
  \A j \in 1..Len(calls) : calls[j].context = StaticResult

\* C3 amended: the first compute function of a build receives the result
\* after static expansion and pass-through; every later one receives the
\* context of the one before it with the fields that one returned merged in.
C3_LiveContext ==
  \A j \in 1..Len(calls) :
    calls[j].context =
      IF j = 1 THEN StaticResult
      ELSE ObjectAssign(calls[j - 1].context, calls[j - 1].returned)

\* the second compute of a build saw a field the first one returned
C3_Witness ==
  /\ pc = "returned"
  /\ Len(calls) = 2
  /\ calls[1].returned # EmptyObject
  /\ calls[2].context # calls[1].context
  /\ calls[1].fn = "fill"
  /\ calls[2].fn = "mirror"
  /\ calls[2].returned = ("y" :> calls[1].returned["c"])

\* C8: a source pair whose key resolves to a rule copies the rule's static
\* fields into the result exactly when its value is the boolean true and
\* leaves the result as it is otherwise (no static field, and the source key
\* is not copied); the rule's compute, if callable, is enqueued with the
\* source value either way.
C8_StaticGate ==
  [][ (/\ mode = "composite"
       /\ pc = "loop"
       /\ idx <= Len(source)
       /\ Resolved(idx)
       /\ HasRule(map, keyCache[source[idx][1]]))
      => LET rule == RuleOf(map, keyCache[source[idx][1]])
             v == source[idx][2]
         IN  /\ v = Bool(TRUE) =>
                  /\ DOMAIN result' = DOMAIN result \cup DOMAIN rule.static
                  /\ \A f \in DOMAIN rule.static : result'[f] = rule.static[f]
                  /\ \A f \in DOMAIN result \ DOMAIN rule.static :
                       result'[f] = result[f]
             /\ v # Bool(TRUE) => result' = result
             /\ computeFunctions' =
                  IF rule.compute \in ComputeFunctions
                  THEN computeFunctions \o << <<rule.compute, v>> >>
                  ELSE computeFunctions ]_vars

\* the pair { key: 1 } of a rule with static fields and a compute function
\* has been processed: nothing was emitted and the compute is enqueued
C8_Witness ==
  /\ mode = "composite"
  /\ pc = "loop"
  /\ idx = 2
  /\ Resolved(1)
  /\ source[1][2] = Num("1")
  /\ RuleOf(map, keyCache[source[1][1]]).static # EmptyObject
  /\ result = EmptyObject
  /\ computeFunctions = << <<RuleOf(map, keyCache[source[1][1]]).compute, Num("1")>> >>

\* the key-value rule a source pair resolves to, and its canonical key
DestKey(i) == keyCache[source[i][1]]
DestRule(i) == RuleOf(map, DestKey(i))

\* the last source pair that resolves to the same canonical key
LastFor(i) ==
  \A j \in (i + 1)..Len(source) : Resolved(j) => DestKey(j) # DestKey(i)

\* the canonical values of a rule whose alias list contains the value
CanonicalValues(rule, v) ==
  { rule.values[j].value :
      j \in { n \in 1..Len(rule.values) :
                /\ v.t = "string"
                /\ \E a \in 1..Len(rule.values[n].aliases) :
                     rule.values[n].aliases[a] = v.s } }

\* the winning value: the canonical value of a matched alias, else the raw one
Winning(rule, v) ==
  IF CanonicalValues(rule, v) # {}
  THEN Str(CHOOSE c \in CanonicalValues(rule, v) : TRUE)
  ELSE v

\* the cast policy as specified: the boolean cast is total
SpecifiedCast(w, castTo) ==
  CASE castTo = "boolean" ->
         Bool(toLowerCase(String(w)) = "true" \/ String(w) = "1")
    [] castTo = "number" -> Number(w)
    [] OTHER -> w

KeyValueFinished == mode = "keyValue" /\ pc \in {"returned", "thrown"}

\* C4: for a rule with _castTo 'boolean' and a source value of any scalar
\* type, build returns without an error and the destination field is the
\* boolean true when the winning value's lowercase string form is "true" or
\* its string form is "1", and the boolean false otherwise.
C4_BooleanCastTotal ==
  KeyValueFinished =>
    \A i \in 1..Len(source) :
      (Resolved(i) /\ HasRule(map, DestKey(i)) /\ DestRule(i).castTo = "boolean")
      => /\ pc = "returned"
         /\ DestKey(i) \in DOMAIN result
         /\ result[DestKey(i)] \in {Bool(TRUE), Bool(FALSE)}
         /\ LastFor(i) =>
              result[DestKey(i)] =
                SpecifiedCast(Winning(DestRule(i), source[i][2]), "boolean")

\* C5: the result field of a resolved pair is the canonical value of the
\* matched value alias, or the raw value when none matches, if the rule has
\* no _castTo, and the cast of that winning value if it has one.
C5_ValueResolution ==
  KeyValueFinished =>
    \A i \in 1..Len(source) :
      (Resolved(i) /\ HasRule(map, DestKey(i)) /\ LastFor(i))
      => /\ pc = "returned"
         /\ DestKey(i) \in DOMAIN result
         /\ result[DestKey(i)] =
              SpecifiedCast(Winning(DestRule(i), source[i][2]),
                            DestRule(i).castTo)

\* the alias strings of rule i of the map the handle was built from, and the
\* strings the rule registers: its canonical key and its aliases
AliasesOf(i) == { ctorMap[i].aliases[n] : n \in 1..Len(ctorMap[i].aliases) }
Mentions(i) == {ctorMap[i].key} \cup AliasesOf(i)

\* C6 as stated: the key alias cache maps every canonical key K to K and
\* every alias of K to K.
C6_AliasCoverage ==
  \A i \in 1..Len(ctorMap) : \A s \in Mentions(i) :
    s \in DOMAIN keyCache /\ keyCache[s] = ctorMap[i].key

\* C6 amended: the key alias cache holds exactly the canonical keys and the
\* aliases, and maps K and every alias of K to K except a string that a later
\* rule (in iteration order) has as its canonical key or lists as an alias.
C6_LastMentionWins ==
  /\ DOMAIN keyCache = UNION { Mentions(i) : i \in 1..Len(ctorMap) }
  /\ \A i \in 1..Len(ctorMap) : \A s \in Mentions(i) :
       (\A j \in (i + 1)..Len(ctorMap) : s \notin Mentions(j))
       => keyCache[s] = ctorMap[i].key

\* a later rule lists an earlier canonical key as its alias, and the earlier
\* rule's own alias still maps to the earlier key
C6_Witness ==
  /\ Len(ctorMap) >= 2
  /\ ctorMap[1].key \in AliasesOf(2)
  /\ keyCache[ctorMap[1].key] = ctorMap[2].key
  /\ \E s \in AliasesOf(1) :
       /\ s \notin {ctorMap[1].key, ctorMap[2].key}
       /\ keyCache[s] = ctorMap[1].key

\* the last rule that lists s in its _aliases
LastListing(s, j) ==
  /\ s \in AliasesOf(j)
  /\ \A k \in (j + 1)..Len(ctorMap) : s \notin AliasesOf(k)

Collides(s, j) == LastListing(s, j) /\ \E i \in 1..(j - 1) : s \in AliasesOf(i)

RewrittenTo(s, key) ==
  (pc = "returned" /\ Len(source) = 1 /\ source[1][1] = s)
  => (DOMAIN result = {key} /\ result[key] = source[1][2])

\* C7 as stated: an alias listed under two canonical keys maps to the later
\* one, and build rewrites a source key equal to it to the later key.
C7_LaterKeyWins ==
  \A j \in 1..Len(ctorMap) : \A s \in AliasesOf(j) :
    Collides(s, j) => (keyCache[s] = ctorMap[j].key /\ RewrittenTo(s, ctorMap[j].key))

\* C7 amended: an alias listed under two canonical keys maps to the later
\* one, and build rewrites a source key equal to it to the later key, unless
\* the alias string is itself a canonical key that comes later still.
C7_LastListingWins ==
  \A j \in 1..Len(ctorMap) : \A s \in AliasesOf(j) :
    (Collides(s, j) /\ \A k \in (j + 1)..Len(ctorMap) : ctorMap[k].key # s)
    => (keyCache[s] = ctorMap[j].key /\ RewrittenTo(s, ctorMap[j].key))

\* a build rewrote a source key that two rules list to the later rule's key
C7_Witness ==
  /\ pc = "returned"
  /\ Len(source) = 1
  /\ Len(ctorMap) >= 2
  /\ source[1][1] \in AliasesOf(1) \cap AliasesOf(2)
  /\ source[1][1] \notin {ctorMap[1].key, ctorMap[2].key}
  /\ DOMAIN result = {ctorMap[2].key}

\* C9: in every state reachable after construction, through builds and
\* caller mutations of the handle's map, keyCache (and valueCache of a
\* key-value handle) are what construction computed, so every step leaves
\* them as they were; and a step of a build changes neither the handle's map
\* nor its source object (the source after a key-value build is the object
\* the build was given).
C9_CachesWriteOnce ==
  [][ /\ keyCache' = cacheKeyAliases(ctorMap)
      /\ mode = "keyValue" => valueCache' = cacheValueAliases(ctorMap)
      /\ keyCache' = keyCache
      /\ valueCache' = valueCache
      /\ mutations' = mutations => map' = map
      /\ pc \in {"loop", "compute"} => source' = source
      /\ (mode = "keyValue" /\ mutations' = mutations /\ kept' = kept)
           => KeyValueBuild(source') ]_vars

\* a build after the caller pushed an alias into the map: the cache is stale
\* and the new alias passed through
C9_Witness ==
  /\ mutations = 1
  /\ pc = "returned"
  /\ map # ctorMap
  /\ Len(source) = 1
  /\ source[1][1] \in DOMAIN cacheKeyAliases(map)
  /\ ~Resolved(1)
  /\ Copied(1)

SameCaches == kept.keyCache = keyCache /\ kept.valueCache = valueCache

SameOutcome == kept.status = pc /\ kept.result = result

\* C10 as stated: two builds of a key-value handle given equal source objects
\* while the caches are equal return equal objects, whatever the map holds.
C10_PureInSourceAndCaches ==
  (KeyValueFinished /\ kept.held /\ kept.source = source /\ SameCaches)
  => SameOutcome

\* C10 amended: two builds of a key-value handle given equal source objects
\* while the caches are equal and every canonical key has the same _castTo
\* in the map at both calls have the same outcome, whatever else the map
\* holds.
C10_PureInSourceCachesAndCastTo ==
  (/\ KeyValueFinished /\ kept.held /\ kept.source = source /\ SameCaches
   /\ \A k \in Keys : CastToOf(kept.map, k) = CastToOf(map, k))
  => SameOutcome

\* the same source was built before and after the caller pushed an alias
\* that the source uses: the outcomes agree
C10_Witness ==
  /\ KeyValueFinished /\ kept.held /\ kept.source = source /\ SameCaches
  /\ kept.map # map
  /\ \A k \in Keys : CastToOf(kept.map, k) = CastToOf(map, k)
  /\ Len(source) = 1
  /\ source[1][1] \in DOMAIN cacheKeyAliases(map)
  /\ ~Resolved(1)
  /\ SameOutcome

\* the source pairs that trigger a compute function: the key resolves to a
\* rule with a callable _compute
Triggering(i) ==
  /\ Resolved(i)
  /\ HasRule(map, keyCache[source[i][1]])
  /\ IsCallable(RuleOf(map, keyCache[source[i][1]]).compute)

\* their positions in the source object, in iteration order
Triggers == SelectSeq([i \in 1..Len(source) |-> i], Triggering)

\* the result after the source loop with the fields returned by the first n
\* compute invocations merged in, in invocation order
RECURSIVE MergedUpTo(_)
MergedUpTo(n) ==
  IF n = 0 THEN StaticResult
  ELSE ObjectAssign(MergedUpTo(n - 1), calls[n].returned)

\* C11: in a composite build the i-th compute invoked is the _compute of the
\* rule resolved from the i-th triggering source pair (source iteration
\* order), called with that pair's value, one invocation per triggering pair
\* (so twice for a rule met through its key and through an alias); the fields
\* a compute returns are merged into the result before the next compute is
\* invoked, and the returned object is the result of these merges in order,
\* the compute that ran last deciding a conflicting field.
C11_ComputeOrder ==
  mode = "composite" =>
    /\ pc = "loop" => calls = <<>>
    /\ pc \in {"compute", "returned"} =>
         /\ Len(computeFunctions) = Len(Triggers)
         /\ Len(calls) <= Len(Triggers)
         /\ \A n \in 1..Len(Triggers) :
              computeFunctions[n] =
                << RuleOf(map, keyCache[source[Triggers[n]][1]]).compute,
                   source[Triggers[n]][2] >>
         /\ \A n \in 1..Len(calls) :
              /\ calls[n].fn =
                   RuleOf(map, keyCache[source[Triggers[n]][1]]).compute
              /\ calls[n].value = source[Triggers[n]][2]
              /\ calls[n].context = MergedUpTo(n - 1)
         /\ result = MergedUpTo(Len(calls))
    /\ pc = "returned" =>
         /\ Len(calls) = Len(Triggers)
         /\ \A f \in ComputeEmitted :
              LET last == CHOOSE n \in 1..Len(calls) :
                            /\ f \in DOMAIN calls[n].returned
                            /\ \A k \in (n + 1)..Len(calls) :
                                 f \notin DOMAIN calls[k].returned
              IN  result[f] = calls[last].returned[f]

\* one rule met through its canonical key and then through its alias: its
\* compute ran twice, with the two values in source order, and the second
\* invocation decided the field both returned
C11_Witness ==
  /\ mode = "composite"
  /\ pc = "returned"
  /\ Len(source) = 2
  /\ Len(calls) = 2
  /\ Resolved(1) /\ Resolved(2)
  /\ source[1][1] # source[2][1]
  /\ keyCache[source[1][1]] = source[1][1]
  /\ keyCache[source[2][1]] = source[1][1]
  /\ calls[1].fn = "fill" /\ calls[2].fn = "fill"
  /\ calls[1].value = source[1][2]
  /\ calls[2].value = source[2][2]
  /\ calls[1].value # calls[2].value
  /\ result["c"] = calls[2].value

\* the canonical keys of the handle's map, and the strings that are only
\* aliases: listed in some _aliases and not a canonical key
CanonicalKeysOf(m) == { m[i].key : i \in 1..Len(m) }
OnlyAliases(m) ==
  UNION { { m[i].aliases[n] : n \in 1..Len(m[i].aliases) } : i \in 1..Len(m) }
  \ CanonicalKeysOf(m)

====
